---- MODULE Spec2Model ----
(***************************************************************************)
(* Model of @grantify/core (packages/core/src/index.ts): the registry that *)
(* createGrantify closes over (rules, defaultUser, allowedPermissions) and *)
(* the operations defineRule, build, can and getRules.                     *)
(*                                                                         *)
(* Strings are sequences of one-character strings, so that trim is         *)
(* computed and not assumed.  JavaScript values are records                *)
(*   [kind, v, st, ik]                                                     *)
(* kind is the value's kind, v names the value; for a promise st is its    *)
(* settled state and (ik, v) the kind and name of what it settles to; for  *)
(* an object st is the field written to it since it was made, if any.      *)
(***************************************************************************)
EXTENDS Naturals, Sequences, FiniteSets

\* ------------------------------------------------------------------ bounds

\* Longest rule sequence explored.
MaxRules == 2

\* Most whitespace characters put on either side of a permission argument.
MaxPad == 1

\* ------------------------------------------------------------ JS values

JS(kind, v) == [kind |-> kind, v |-> v, st |-> "", ik |-> ""]

Undefined == JS("undefined", "undefined")
Null == JS("null", "null")
True == JS("boolean", "true")
False == JS("boolean", "false")
Zero == JS("number", "0")
One == JS("number", "1")
EmptyString == JS("string", "")
Yes == JS("string", "yes")
SomeObject == JS("object", "{}")
User1 == JS("object", "{id:1}")
User2 == JS("object", "{id:2}")
Ctx1 == JS("object", "{isOwner:true}")

\* The builder createGrantify returns, an instance build() returns and an
\* array getRules() returns, as the values their callers get.
Builder == JS("object", "builder")
Instance == JS("object", "{can, getRules}")
RulesArray == JS("object", "[...rules]")

\* A promise fulfilled with the (non-promise) value x.
Fulfilled(x) == [kind |-> "promise", v |-> x.v, st |-> "fulfilled", ik |-> x.kind]

\* A promise rejected with the error whose message is the string m.
Rejected(m) == [kind |-> "promise", v |-> m, st |-> "rejected", ik |-> "error"]

\* Mutant of PromiseResolve: a value that is not a boolean settles to false.
PromiseResolve_coerced(x) ==
  IF x.kind = "promise"
  THEN IF x.st = "fulfilled" /\ x.ik # "boolean" THEN Fulfilled(False) ELSE x
  ELSE Fulfilled(IF x.kind = "boolean" THEN x ELSE False)

\* Promise.resolve(x): a promise is returned as it is, any other value wrapped.
PromiseResolve(x) == IF x.kind = "promise" THEN x ELSE Fulfilled(x)

\* The typeof operator.
TypeOf(x) ==
  CASE x.kind = "null" -> "object"
    [] x.kind = "promise" -> "object"
    [] OTHER -> x.kind

\* a ?? b
Coalesce(a, b) == IF a.kind \in {"undefined", "null"} THEN b ELSE a

\* -------------------------------------------------------------- strings

\* Characters String.prototype.trim removes that the model's strings use.
WhiteSpace == {" ", "\t", "\n"}

RECURSIVE trimStart(_)
trimStart(s) ==
  IF s = <<>> THEN s
  ELSE IF Head(s) \in WhiteSpace THEN trimStart(Tail(s)) ELSE s

RECURSIVE trimEnd(_)
trimEnd(s) ==
  IF s = <<>> THEN s
  ELSE IF s[Len(s)] \in WhiteSpace THEN trimEnd(SubSeq(s, 1, Len(s) - 1)) ELSE s

\* String.prototype.trim
trim(s) == trimEnd(trimStart(s))

\* Array.prototype.includes
includes(arr, x) == \E i \in 1..Len(arr) : arr[i] = x

\* ------------------------------------------------------------ the inputs

\* Permission names used by callers.
Names == { <<"r">>, <<"w">> }

\* The run of n whitespace characters, spaces and tabs in turn.
PadOfLen(n) == [i \in 1..n |-> IF i % 2 = 1 THEN " " ELSE "\t"]

\* Runs of whitespace of at most MaxPad characters.
Pads == { PadOfLen(n) : n \in 0..MaxPad }

\* The permission arguments passed to defineRule and can.
PermArgs == { l \o n \o r : l \in Pads, n \in Names, r \in Pads }

\* The permissions arrays passed to createGrantify.
PermissionLists ==
  { <<>>,
    << <<"r">> >>,
    << <<"r">>, <<"w">> >>,
    << <<" ", "r">>, <<"w">> >> }

\* The default users passed to createGrantify.
DefaultUsers == { User1 }

\* The user arguments of can; Undefined is the omitted argument.
UserArgs == { Undefined, Null, Zero, EmptyString, User2 }

\* The ctx arguments of can; Undefined is the omitted argument.
CtxArgs == { Undefined, Null, Ctx1 }

\* The callbacks passed to defineRule: ctor is cb.constructor.name, returns
\* tells whether the function's return type is a boolean ("immediate") or a
\* Promise<boolean> ("deferred").
Callbacks ==
  { [id |-> "f", ctor |-> "Function", returns |-> "immediate"],
    [id |-> "p", ctor |-> "Function", returns |-> "deferred"],
    [id |-> "a", ctor |-> "AsyncFunction", returns |-> "deferred"] }

NoCallback == [id |-> "", ctor |-> "", returns |-> ""]

\* ------------------------------------------------------------- outcomes

Return(x) == [status |-> "return", val |-> x, msg |-> <<>>]
Throw(m) == [status |-> "throw", val |-> Undefined, msg |-> m]
NoOutcome == [status |-> "", val |-> Undefined, msg |-> <<>>]

\* `Permission "${permission}" is not defined.`
PermissionNotDefined(permission) ==
  << "Permission \"" >> \o permission \o << "\" is not defined." >>

\* `No rule defined for permission "${permission}".`
RuleNotDefined(permission) ==
  << "No rule defined for permission \"" >> \o permission \o << "\"." >>

\* The message of the error a failing callback raises.
CallbackError == "DB error"

\* What a call of the callback cb can do.  An async function never throws: it
\* returns a promise, rejected when its body throws.
CallbackOutcomes(cb) ==
  IF cb.returns = "deferred"
  THEN { Return(Fulfilled(x)) : x \in {True, False, One} }
         \cup { Return(Rejected(CallbackError)) }
  ELSE { Return(x) : x \in {True, False, Undefined, Null, One, Yes, SomeObject} }
         \cup { Throw(<< CallbackError >>) }

\* ---------------------------------------------------------------- state

VARIABLES
  permissions,   \* options.permissions, the caller's array
  defaultUser,   \* options.user
  rules,         \* the rules array of the closure
  built,         \* build() has returned an instance
  held,          \* the arrays got from getRules() that the caller keeps
  other,         \* the closure of another createGrantify call
  last           \* the call that has just completed, with what it did

vars == << permissions, defaultUser, rules, built, held, other, last >>

\* The caller's variables that keep an array got from getRules().
Handles == { "rules1", "rules2" }

\* An array of rule records: array tells which array object it is ("copy": one
\* made by getRules, "rules": the closure's rules array itself, "none": no
\* array), items its elements, each the index in rules of the rule record it
\* refers to, or 0 for a record the caller made.
NoRows == [array |-> "none", items |-> <<>>]

\* The record the caller pushes: { perm: 'fake', cb: () => false, async: false }
FakeRule ==
  [perm |-> <<"f", "a", "k", "e">>,
   cb |-> [id |-> "fake", ctor |-> "Function", returns |-> "immediate"],
   async |-> FALSE]

\* const allowedPermissions = options.permissions: the same array, not a copy.
allowedPermissions == permissions

\* The style.display of the element a directive is mounted on, before the
\* hook (was) and after it (display); NoEl when no element is involved.
NoEl == [was |-> "", display |-> ""]

NoCall ==
  [op |-> "none", perm |-> <<>>, user |-> Undefined, ctx |-> Undefined,
   cb |-> NoCallback, out |-> NoOutcome, calls |-> <<>>, rows |-> NoRows,
   el |-> NoEl]

\* The closure of a createGrantify call as the four things it holds.
Closure(p, u, r, b) ==
  [permissions |-> p, defaultUser |-> u, rules |-> r, built |-> b]

\* createGrantify(options), and a second createGrantify call with the same
\* permission identifiers and another user.
Init ==
  /\ permissions \in PermissionLists
  /\ defaultUser \in DefaultUsers
  /\ rules = <<>>
  /\ built = FALSE
  /\ held = [h \in Handles |-> NoRows]
  /\ other = Closure(permissions, User2, <<>>, FALSE)
  /\ last = NoCall

\* ------------------------------------------------------------ operations

\* Mutants of normalize: no trimming, and trimming the start only.
normalize_identity(p) == p

normalize_trimStart(p) == trimStart(p)

\* function normalize(p) { return p.trim() }
normalize(p) == trim(p)

\* Mutant of currentUser: falsy values fall back to the default too (||).
currentUser_or(user) ==
  IF user \in {Undefined, Null, False, Zero, EmptyString} THEN defaultUser ELSE user

\* Mutant of currentUser: no default is substituted.
currentUser_none(user) == user

\* Mutant of currentUser: the default user is a copy made at construction,
\* without what was written to the object since.
currentUser_copied(user) == Coalesce(user, JS(defaultUser.kind, defaultUser.v))

\* const currentUser = user ?? defaultUser
currentUser(user) == Coalesce(user, defaultUser)

\* Mutant of findRule: the last matching rule.
findRule_last(permission) ==
  LET hits == { i \in 1..Len(rules) : normalize(rules[i].perm) = permission }
  IN IF hits = {} THEN 0 ELSE CHOOSE i \in hits : \A j \in hits : j <= i

\* rules.find(r => normalize(r.perm) === permission): the index of the first
\* matching rule, 0 when find returns undefined.
findRule(permission) ==
  LET hits == { i \in 1..Len(rules) : normalize(rules[i].perm) = permission }
  IN IF hits = {} THEN 0 ELSE CHOOSE i \in hits : \A j \in hits : i <= j

\* Mutant of isAsync: classified by what the callback returns.
isAsync_byReturn(cb) == cb.returns = "deferred"

\* const isAsync = cb.constructor.name === 'AsyncFunction'
isAsync(cb) == cb.ctor = "AsyncFunction"

\* Mutants of coerce: the result as it is, and its truthiness.
coerce_none(result) == result

coerce_truthy(result) ==
  IF result \in {Undefined, Null, False, Zero, EmptyString} THEN False ELSE True

\* if (typeof result === 'boolean') return result; return false
coerce(result) == IF TypeOf(result) = "boolean" THEN result ELSE False

\* Mutant of Invocation: a missing context is replaced by an empty object.
Invocation_defaultCtx(cb, user, ctx, ret) ==
  [cb |-> cb, user |-> user, ctx |-> Coalesce(ctx, SomeObject), ret |-> ret]

\* rule.cb(currentUser, ctx), with what it returned or threw
Invocation(cb, user, ctx, ret) == [cb |-> cb, user |-> user, ctx |-> ctx, ret |-> ret]

\* Mutant of canResult: the callback is called once to see what kind of value
\* it gives and once more for the result.
canResult_probe(perm, user, ctx, o) ==
  LET permission == normalize(perm)
      cu == currentUser(user)
      i == findRule(permission)
  IN IF ~includes(allowedPermissions, permission)
     THEN [out |-> Throw(PermissionNotDefined(permission)), calls |-> <<>>]
     ELSE IF i = 0
     THEN [out |-> Throw(RuleNotDefined(permission)), calls |-> <<>>]
     ELSE LET rule == rules[i]
              inv == << Invocation(rule.cb, cu, ctx, o), Invocation(rule.cb, cu, ctx, o) >>
          IN IF o.status = "throw"
             THEN [out |-> o, calls |-> inv]
             ELSE IF rule.async
             THEN [out |-> Return(PromiseResolve(o.val)), calls |-> inv]
             ELSE [out |-> Return(coerce(o.val)), calls |-> inv]

\* The body of can, given what the callback does if it is called: the call's
\* outcome and the callback invocations it made.
canResult(perm, user, ctx, o) ==
  LET permission == normalize(perm)
      cu == currentUser(user)
      i == findRule(permission)
  IN IF ~includes(allowedPermissions, permission)
     THEN [out |-> Throw(PermissionNotDefined(permission)), calls |-> <<>>]
     ELSE IF i = 0
     THEN [out |-> Throw(RuleNotDefined(permission)), calls |-> <<>>]
     ELSE LET rule == rules[i]
              inv == << Invocation(rule.cb, cu, ctx, o) >>
          IN IF o.status = "throw"
             THEN [out |-> o, calls |-> inv]
             ELSE IF rule.async
             THEN [out |-> Return(PromiseResolve(o.val)), calls |-> inv]
             ELSE [out |-> Return(coerce(o.val)), calls |-> inv]

\* What the callback that can(perm) reaches may do; NoOutcome when can fails
\* before it calls one.
Reached(perm) ==
  LET permission == normalize(perm)
      i == findRule(permission)
  IN IF includes(allowedPermissions, permission) /\ i # 0
     THEN CallbackOutcomes(rules[i].cb)
     ELSE { NoOutcome }

\* instance.can(perm, user, ctx)
can(perm, user, ctx) ==
  /\ last = NoCall
  /\ built
  /\ \E o \in Reached(perm) :
       LET res == canResult(perm, user, ctx, o)
       IN last' = [op |-> "can", perm |-> perm, user |-> user, ctx |-> ctx,
                   cb |-> NoCallback, out |-> res.out, calls |-> res.calls,
                   rows |-> NoRows, el |-> NoEl]
  /\ UNCHANGED << permissions, defaultUser, rules, built, held, other >>

\* The record of a completed defineRule(perm, cb).
Defined(perm, cb, out) ==
  [op |-> "defineRule", perm |-> perm, user |-> Undefined, ctx |-> Undefined,
   cb |-> cb, out |-> out, calls |-> <<>>, rows |-> NoRows, el |-> NoEl]

\* Mutant of defineRule: the rule is stored before the permission is checked.
defineRule_storeFirst(perm, cb) ==
  /\ last = NoCall
  /\ Len(rules) < MaxRules
  /\ LET permission == normalize(perm)
     IN /\ rules' = Append(rules, [perm |-> permission, cb |-> cb, async |-> isAsync(cb)])
        /\ last' = Defined(perm, cb, IF includes(allowedPermissions, permission)
                                     THEN Return(Builder)
                                     ELSE Throw(PermissionNotDefined(permission)))
  /\ UNCHANGED << permissions, defaultUser, built, held, other >>

\* Mutant of defineRule: a rule already defined for the permission is
\* replaced, not followed by the new one.
defineRule_replace(perm, cb) ==
  /\ last = NoCall
  /\ Len(rules) < MaxRules
  /\ LET permission == normalize(perm)
         rule == [perm |-> permission, cb |-> cb, async |-> isAsync(cb)]
     IN IF ~includes(allowedPermissions, permission)
        THEN /\ last' = Defined(perm, cb, Throw(PermissionNotDefined(permission)))
             /\ UNCHANGED rules
        ELSE /\ rules' = IF findRule(permission) = 0 THEN Append(rules, rule)
                         ELSE [rules EXCEPT ![findRule(permission)] = rule]
             /\ last' = Defined(perm, cb, Return(Builder))
  /\ UNCHANGED << permissions, defaultUser, built, held, other >>

\* Mutant of defineRule: the entries of the allow-list are trimmed in place
\* before the permission is looked up in it.
defineRule_trimList(perm, cb) ==
  /\ last = NoCall
  /\ Len(rules) < MaxRules
  /\ permissions' = [i \in 1..Len(permissions) |-> normalize(permissions[i])]
  /\ LET permission == normalize(perm)
     IN IF ~includes(permissions', permission)
        THEN /\ last' = Defined(perm, cb, Throw(PermissionNotDefined(permission)))
             /\ UNCHANGED rules
        ELSE /\ rules' = Append(rules, [perm |-> permission, cb |-> cb, async |-> isAsync(cb)])
             /\ last' = Defined(perm, cb, Return(Builder))
  /\ UNCHANGED << defaultUser, built, held, other >>

\* Mutant of defineRule: the rule is put in front of the rules (unshift).
defineRule_unshift(perm, cb) ==
  /\ last = NoCall
  /\ Len(rules) < MaxRules
  /\ LET permission == normalize(perm)
     IN IF ~includes(allowedPermissions, permission)
        THEN /\ last' = Defined(perm, cb, Throw(PermissionNotDefined(permission)))
             /\ UNCHANGED rules
        ELSE /\ rules' = << [perm |-> permission, cb |-> cb, async |-> isAsync(cb)] >> \o rules
             /\ last' = Defined(perm, cb, Return(Builder))
  /\ UNCHANGED << permissions, defaultUser, built, held, other >>

\* builder.defineRule(perm, cb); it returns the builder.
defineRule(perm, cb) ==
  /\ last = NoCall
  /\ Len(rules) < MaxRules
  /\ LET permission == normalize(perm)
     IN IF ~includes(allowedPermissions, permission)
        THEN /\ last' = Defined(perm, cb, Throw(PermissionNotDefined(permission)))
             /\ UNCHANGED rules
        ELSE /\ rules' = Append(rules, [perm |-> permission, cb |-> cb, async |-> isAsync(cb)])
             /\ last' = Defined(perm, cb, Return(Builder))
  /\ UNCHANGED << permissions, defaultUser, built, held, other >>

\* Mutant of build: the rules are handed over to the instance and the
\* builder starts again with none.
build_handOver ==
  /\ last = NoCall
  /\ built' = TRUE
  /\ rules' = <<>>
  /\ last' = [NoCall EXCEPT !.op = "build", !.out = Return(Instance)]
  /\ UNCHANGED << permissions, defaultUser, held, other >>

\* builder.build(): an instance whose can and getRules are the closure's, over
\* the same rules array.
build ==
  /\ last = NoCall
  /\ built' = TRUE
  /\ last' = [NoCall EXCEPT !.op = "build", !.out = Return(Instance)]
  /\ UNCHANGED << permissions, defaultUser, rules, held, other >>

\* Mutant of copyRules: the rules array itself is returned.
copyRules_alias == [array |-> "rules", items |-> [i \in 1..Len(rules) |-> i]]

\* [...rules]: a new array with the elements of rules, the same rule records.
copyRules == [array |-> "copy", items |-> [i \in 1..Len(rules) |-> i]]

\* instance.getRules()
getRules ==
  /\ last = NoCall
  /\ built
  /\ last' = [NoCall EXCEPT !.op = "getRules", !.out = Return(RulesArray),
                            !.rows = copyRules]
  /\ UNCHANGED << permissions, defaultUser, rules, built, held, other >>

\* The caller has the result of its call and goes on to the next one.
Continue ==
  /\ last # NoCall
  /\ last' = NoCall
  /\ UNCHANGED << permissions, defaultUser, rules, built, held, other >>

Next ==
  \/ \E perm \in PermArgs, cb \in Callbacks : defineRule(perm, cb)
  \/ build
  \/ \E perm \in PermArgs, user \in UserArgs, ctx \in CtxArgs : can(perm, user, ctx)
  \/ getRules
  \/ Continue

Spec == Init /\ [][Next]_vars

(***************************************************************************)
(* What the caller can do to the objects it shares with the closure: the   *)
(* arrays getRules returned, the rule records in them, and the permissions *)
(* array it passed to createGrantify.                                      *)
(***************************************************************************)

\* A statement of the caller that is no call of the library.
Statement(op) == [NoCall EXCEPT !.op = op]

\* The elements of the array a: of rules itself when a is the rules array.
Elements(a) ==
  IF a.array = "rules" THEN [i \in 1..Len(rules) |-> i] ELSE a.items

\* The rule records in the array a, as a reader of a sees them.
Records(a) ==
  [k \in 1..Len(Elements(a)) |->
     IF Elements(a)[k] = 0 THEN FakeRule ELSE rules[Elements(a)[k]]]

\* const h = grantify.getRules()
Keep(h) ==
  /\ last.op = "getRules"
  /\ held[h] = NoRows
  /\ held' = [held EXCEPT ![h] = last.rows]
  /\ last' = NoCall
  /\ UNCHANGED << permissions, defaultUser, rules, built, other >>

\* h.push({ perm: 'fake', cb: () => false, async: false })
SnapshotPush(h) ==
  /\ last = NoCall
  /\ held[h] # NoRows
  /\ Len(Elements(held[h])) <= MaxRules
  /\ IF held[h].array = "rules"
     THEN rules' = Append(rules, FakeRule) /\ UNCHANGED held
     ELSE held' = [held EXCEPT ![h].items = Append(@, 0)] /\ UNCHANGED rules
  /\ last' = Statement("push")
  /\ UNCHANGED << permissions, defaultUser, built, other >>

\* h.pop()
SnapshotPop(h) ==
  /\ last = NoCall
  /\ held[h] # NoRows
  /\ Elements(held[h]) # <<>>
  /\ IF held[h].array = "rules"
     THEN rules' = SubSeq(rules, 1, Len(rules) - 1) /\ UNCHANGED held
     ELSE held' = [held EXCEPT ![h].items = SubSeq(@, 1, Len(@) - 1)]
          /\ UNCHANGED rules
  /\ last' = Statement("pop")
  /\ UNCHANGED << permissions, defaultUser, built, other >>

\* The contents a rule record can be given.
RuleRecords == [perm : Names, cb : Callbacks, async : BOOLEAN]

\* The records r and q differ in one field only.
OneFieldApart(r, q) ==
  \/ r.perm # q.perm /\ r.cb = q.cb /\ r.async = q.async
  \/ r.perm = q.perm /\ r.cb # q.cb /\ r.async = q.async
  \/ r.perm = q.perm /\ r.cb = q.cb /\ r.async # q.async

\* h[k - 1].perm = ..., h[k - 1].cb = ... or h[k - 1].async = ..., on a record
\* that getRules put in h: the element of h is the record rules holds.
SnapshotWrite(h, k, rec) ==
  /\ last = NoCall
  /\ k \in 1..Len(Elements(held[h]))
  /\ Elements(held[h])[k] \in 1..Len(rules)
  /\ OneFieldApart(rules[Elements(held[h])[k]], rec)
  /\ rules' = [rules EXCEPT ![Elements(held[h])[k]] = rec]
  /\ last' = Statement("write")
  /\ UNCHANGED << permissions, defaultUser, built, held, other >>

\* permissions.push(p), on the array passed to createGrantify
AllowListPush(p) ==
  /\ last = NoCall
  /\ ~includes(permissions, p)
  /\ permissions' = Append(permissions, p)
  /\ last' = Statement("permissions.push")
  /\ UNCHANGED << defaultUser, rules, built, held, other >>

\* permissions.pop(), on the array passed to createGrantify
AllowListPop ==
  /\ last = NoCall
  /\ permissions # <<>>
  /\ permissions' = SubSeq(permissions, 1, Len(permissions) - 1)
  /\ last' = Statement("permissions.pop")
  /\ UNCHANGED << defaultUser, rules, built, held, other >>

\* The library's operations on unpadded permissions with the default user and
\* no context.
NextPlain ==
  \/ \E perm \in Names, cb \in Callbacks : defineRule(perm, cb)
  \/ build
  \/ \E perm \in Names : can(perm, Undefined, Undefined)
  \/ getRules
  \/ Continue

\* A caller that keeps the arrays it gets and pushes to them and pops from them.
NextSnapshots ==
  \/ NextPlain
  \/ \E h \in Handles : Keep(h)
  \/ \E h \in Handles : SnapshotPush(h)
  \/ \E h \in Handles : SnapshotPop(h)

SpecSnapshots == Init /\ [][NextSnapshots]_vars

\* A caller that keeps one array it gets and writes to the records in it.
NextWrites ==
  \/ NextPlain
  \/ Keep("rules1")
  \/ \E k \in 1..MaxRules, rec \in RuleRecords : SnapshotWrite("rules1", k, rec)

SpecWrites == Init /\ [][NextWrites]_vars

\* A caller that goes on using the array it passed as options.permissions.
NextAllowList ==
  \/ NextPlain
  \/ \E p \in Names : AllowListPush(p)
  \/ AllowListPop

SpecAllowList == Init /\ [][NextAllowList]_vars

\* ---------------------------------------------------------------- claims

\* The trimmed form of s, stated and not computed: s from its first to its
\* last character that is not whitespace, the empty string if it has none.
TrimmedForm(s) ==
  LET solid == { i \in 1..Len(s) : s[i] \notin WhiteSpace }
  IN IF solid = {} THEN <<>>
     ELSE SubSeq(s, CHOOSE i \in solid : \A j \in solid : i <= j,
                    CHOOSE i \in solid : \A j \in solid : j <= i)

\* The index in rules of the earliest rule defined for the permission p, 0 if
\* none was.
Earliest(p) ==
  IF \E i \in 1..Len(rules) : rules[i].perm = TrimmedForm(p)
  THEN CHOOSE i \in 1..Len(rules) :
         /\ rules[i].perm = TrimmedForm(p)
         /\ \A j \in 1..(i - 1) : rules[j].perm # TrimmedForm(p)
  ELSE 0

\* The permission p is allow-listed: p, or p trimmed, is an entry of the
\* allow-list.
AllowListed(p) ==
  includes(permissions, p) \/ includes(permissions, TrimmedForm(p))

\* The call just completed is a can that reached a callback.
CanCalled == last.op = "can" /\ last.calls # <<>>

\* C1: a can whose trimmed permission is not in the allow-list fails with
\* PermissionNotDefined naming the trimmed permission and calls no callback,
\* whatever the rules and the padding.
C1_CanUnlistedPermission ==
  (last.op = "can" /\ ~includes(permissions, TrimmedForm(last.perm)))
    => /\ last.out = Throw(PermissionNotDefined(TrimmedForm(last.perm)))
       /\ last.calls = <<>>

C1_Witness ==
  /\ last.op = "can"
  /\ last.perm # TrimmedForm(last.perm)
  /\ ~includes(permissions, TrimmedForm(last.perm))
  /\ rules # <<>>
  /\ last.out.status = "throw"

\* C2: a defineRule whose trimmed permission is not in the allow-list fails
\* with PermissionNotDefined naming the trimmed permission, and the rule
\* sequence after the call is the rule sequence before it.
C2_DefineRuleUnlistedPermission ==
  [][ (last'.op = "defineRule" /\ ~includes(permissions, TrimmedForm(last'.perm)))
        => /\ last'.out = Throw(PermissionNotDefined(TrimmedForm(last'.perm)))
           /\ rules' = rules ]_vars

C2_Witness ==
  /\ last.op = "defineRule"
  /\ last.perm # TrimmedForm(last.perm)
  /\ ~includes(permissions, TrimmedForm(last.perm))
  /\ last.out.status = "throw"
  /\ rules # <<>>

\* C3: a can for an allow-listed permission for which no rule is defined
\* fails with RuleNotDefined naming the trimmed permission, never with
\* PermissionNotDefined, and calls no callback.
C3_NoRulePath ==
  (last.op = "can" /\ AllowListed(last.perm) /\ Earliest(last.perm) = 0)
    => /\ last.out = Throw(RuleNotDefined(TrimmedForm(last.perm)))
       /\ last.calls = <<>>

\* C4: can(p) calls the callback of the earliest rule defined for p and has
\* that rule's shape, and a later defineRule changes neither the earliest
\* rule's callback nor its classification.
C4_FirstMatchWins ==
  /\ [](CanCalled =>
          /\ Len(last.calls) = 1
          /\ last.calls[1].cb = rules[Earliest(last.perm)].cb
          /\ last.out.status = "return" =>
               ((last.out.val.kind = "promise") = rules[Earliest(last.perm)].async))
  /\ [][ \A n \in Names :
           Earliest(n) # 0 =>
             /\ Earliest(n)' = Earliest(n)
             /\ rules'[Earliest(n)] = rules[Earliest(n)] ]_vars

C4_Witness ==
  /\ CanCalled
  /\ Len(rules) = 2
  /\ rules[1].perm = rules[2].perm
  /\ rules[1].cb # rules[2].cb
  /\ rules[1].async # rules[2].async

\* C5: a can with the subject omitted calls the callback with the default
\* subject given to createGrantify.
C5_DefaultSubject ==
  (CanCalled /\ last.user = Undefined) => last.calls[1].user = defaultUser

C5_Witness ==
  /\ CanCalled
  /\ last.user = Undefined
  /\ last.calls[1].user = User1

\* C6: a can with an explicit subject, null and falsy values included, calls
\* the callback with that subject and not with the default one.
C6_ExplicitSubject ==
  (CanCalled /\ last.user # Undefined) => last.calls[1].user = last.user

\* C7: a can that returns returns a boolean at once if the first rule for the
\* permission is classified synchronous and a promise if it is classified
\* asynchronous, whatever the subject and the context.
C7_ShapeFidelity ==
  (last.op = "can" /\ last.out.status = "return")
    => /\ Earliest(last.perm) # 0
       /\ IF rules[Earliest(last.perm)].async
          THEN last.out.val.kind = "promise"
          ELSE last.out.val.kind = "boolean"

C7_Witness ==
  /\ last.op = "can"
  /\ last.out = Return(Fulfilled(True))
  /\ rules[Earliest(last.perm)].async
  /\ last.user # Undefined
  /\ last.ctx # Undefined

\* C8: a rule is classified asynchronous exactly when its callback returns a
\* deferred value, an ordinary function that returns a promise included.
C8_Classification ==
  \A i \in 1..Len(rules) :
    rules[i].async = (rules[i].cb.returns = "deferred")

\* C9: for a rule classified synchronous can returns true when the callback
\* returns true and false when it returns anything else; no returned value
\* makes can fail.
C9_Coercion ==
  (CanCalled /\ ~rules[Earliest(last.perm)].async
     /\ last.calls[1].ret.status = "return")
    => last.out = Return(IF last.calls[1].ret.val = True THEN True ELSE False)

C9_Witness ==
  /\ CanCalled
  /\ ~rules[Earliest(last.perm)].async
  /\ last.calls[1].ret.status = "return"
  /\ last.calls[1].ret.val.kind = "promise"
  /\ last.out = Return(False)

\* C10: can(w) has the outcome of can(p) in the same registry state whenever
\* p is w trimmed: the same value and shape or the same error, the callback
\* doing the same in both calls.
C10_PaddingInvariance ==
  last.op = "can" =>
    LET o == IF last.calls # <<>> THEN last.calls[1].ret ELSE NoOutcome
        res == canResult(TrimmedForm(last.perm), last.user, last.ctx, o)
    IN /\ last.out = res.out
       /\ last.calls = res.calls

C10_Witness ==
  /\ last.op = "can"
  /\ Len(last.perm) = Len(TrimmedForm(last.perm)) + 2
  /\ last.out.status = "return"

\* C11: membership in the allow-list is decided on trimmed identifiers on both
\* sides: when the argument and an entry of the allow-list are equal after
\* trimming, defineRule succeeds and can does not fail with
\* PermissionNotDefined.
C11_TrimmedMembership ==
  (/\ last.op \in {"defineRule", "can"}
   /\ \E i \in 1..Len(permissions) :
        TrimmedForm(permissions[i]) = TrimmedForm(last.perm))
    => /\ last.out # Throw(PermissionNotDefined(TrimmedForm(last.perm)))
       /\ last.op = "defineRule" => last.out.status = "return"

\* C12: can does not intercept a failure of the callback: when the callback
\* throws, can throws the same error; when the promise the callback returns
\* is rejected, can returns that rejected promise; can returns no boolean in
\* either case.
C12_FailurePropagates ==
  CanCalled =>
    LET ret == last.calls[1].ret
    IN /\ ret.status = "throw" => last.out = Throw(ret.msg)
       /\ (ret.status = "return" /\ ret.val.kind = "promise"
             /\ ret.val.st = "rejected")
            => last.out = Return(ret.val)

\* A defineRule has just completed and returned.
DefineRuleSucceeded == last.op = "defineRule" /\ last.out.status = "return"

\* C13: every getRules returns a new array whose records are the rules, in
\* order; a push to or a pop from an array the caller keeps changes neither
\* the other arrays it keeps nor what later getRules and can calls read (the
\* rules, the allow-list and the default user).
C13_SnapshotIsolation ==
  /\ [](last.op = "getRules"
          => last.rows.array = "copy" /\ Records(last.rows) = rules)
  /\ [][last'.op \in {"push", "pop"}
          => /\ rules' = rules
             /\ permissions' = permissions
             /\ defaultUser' = defaultUser
             /\ \E h \in Handles :
                  /\ held'[h] # held[h]
                  /\ \A g \in Handles \ {h} :
                       held'[g] = held[g] /\ Records(held[g])' = Records(held[g])
     ]_vars

\* Both kept arrays came from getRules with the same rules, and a push has made
\* one of them longer than the other and than the rules.
C13_Witness ==
  /\ last.op = "push"
  /\ rules # <<>>
  /\ Records(held["rules2"]) = rules
  /\ Len(held["rules1"].items) = Len(rules) + 1

\* C14: a write to a field of a rule record taken from a getRules array leaves
\* the rules as they were.
C14_RecordIndependence == [][last'.op = "write" => rules' = rules]_vars

\* C15: the rules are empty at first, a successful defineRule appends one
\* record with the trimmed permission and the callback passed, nothing else
\* changes the rules, and getRules returns the rules in order.
C15_OneRecordPerDefineRule ==
  /\ rules = <<>>
  /\ [][IF DefineRuleSucceeded'
        THEN /\ Len(rules') = Len(rules) + 1
             /\ SubSeq(rules', 1, Len(rules)) = rules
             /\ rules'[Len(rules')].perm = TrimmedForm(last'.perm)
             /\ rules'[Len(rules')].cb = last'.cb
        ELSE rules' = rules]_vars
  /\ [](last.op = "getRules" => Records(last.rows) = rules)

\* The permissions that defineRule and can accept.
Accepted == { p \in PermArgs : includes(allowedPermissions, normalize(p)) }

\* C16: the permissions that defineRule and can accept never change.
C16_AllowListFixed == [][Accepted' = Accepted]_vars

\* C17: once build has returned, the rules that the instance's getRules
\* returns and that its can searches do not change.
C17_FrozenAfterBuild == [][built => rules' = rules]_vars

\* C18: a can that passes the allow-list check and finds a rule calls the
\* callback of that rule once and no other; a can that fails with
\* PermissionNotDefined or RuleNotDefined calls none. It holds of each call in
\* every state, so of each of N calls in a row.
C18_OneInvocation ==
  last.op = "can" =>
    IF includes(permissions, TrimmedForm(last.perm)) /\ Earliest(last.perm) # 0
    THEN /\ Len(last.calls) = 1
         /\ last.calls[1].cb = rules[Earliest(last.perm)].cb
    ELSE /\ last.calls = <<>>
         /\ last.out \in { Throw(PermissionNotDefined(TrimmedForm(last.perm))),
                           Throw(RuleNotDefined(TrimmedForm(last.perm))) }

\* A can reached the callback of the second of two rules, and a boolean came
\* back.
C18_Witness ==
  /\ CanCalled
  /\ Len(rules) = 2
  /\ Earliest(last.perm) = 2
  /\ last.out \in { Return(True), Return(False) }

\* C19: the callback gets as its second argument the context can was given:
\* undefined for undefined, null for null, the object for an object.
C19_ContextUnchanged ==
  CanCalled => \A k \in 1..Len(last.calls) : last.calls[k].ctx = last.ctx

\* A can with a null context reached a callback.
C19_Witness == CanCalled /\ last.ctx = Null

\* C20: a successful defineRule returns the builder and makes the rules one
\* longer, nothing else changes their number, and getRules returns as many
\* records as there are rules: as many as the successful defineRule calls.
C20_BuilderChain ==
  /\ Len(rules) = 0
  /\ [][IF DefineRuleSucceeded'
        THEN last'.out = Return(Builder) /\ Len(rules') = Len(rules) + 1
        ELSE Len(rules') = Len(rules)]_vars
  /\ [](last.op = "getRules" => Len(last.rows.items) = Len(rules))

\* getRules returned two records after two successful defineRule calls for the
\* same permission.
C20_Witness ==
  /\ last.op = "getRules"
  /\ Len(last.rows.items) = 2
  /\ rules[1].perm = rules[2].perm

\* user.isAdmin = !user.isAdmin, on the object passed as options.user
UserWrite ==
  /\ last = NoCall
  /\ defaultUser' = [defaultUser EXCEPT !.st = IF @ = "" THEN "isAdmin" ELSE ""]
  /\ last' = Statement("user.isAdmin")
  /\ UNCHANGED << permissions, rules, built, held, other >>

\* A caller that goes on writing to the object it passed as options.user.
NextUser ==
  \/ NextPlain
  \/ UserWrite

SpecUser == Init /\ [][NextUser]_vars

\* Mutant of Switch: the rules array is one for all closures (declared
\* outside createGrantify).
Switch_sharedRules ==
  /\ last = NoCall
  /\ permissions' = other.permissions
  /\ defaultUser' = other.defaultUser
  /\ rules' = rules
  /\ built' = other.built
  /\ other' = Closure(permissions, defaultUser, rules, built)
  /\ last' = Statement("switch")
  /\ UNCHANGED held

\* The caller turns to the builder and instances of the other createGrantify
\* call: the operations now run in that call's closure, with its own rules,
\* defaultUser and allowedPermissions.
Switch ==
  /\ last = NoCall
  /\ permissions' = other.permissions
  /\ defaultUser' = other.defaultUser
  /\ rules' = other.rules
  /\ built' = other.built
  /\ other' = Closure(permissions, defaultUser, rules, built)
  /\ last' = Statement("switch")
  /\ UNCHANGED held

\* A caller that uses the results of two createGrantify calls in turn.
NextRegistries ==
  \/ NextPlain
  \/ Switch

SpecRegistries == Init /\ [][NextRegistries]_vars

(***************************************************************************)
(* The v-can directive of @grantify/vue (packages/vue/src/types.ts), made  *)
(* with the instance build() returned.                                     *)
(***************************************************************************)

\* binding.arg of a v-can with no argument: undefined, falsy as '' is.
NoArg == <<>>

\* binding.arg: the permission after the colon of v-can:permission, if any.
DirectiveArgs == Names \cup { NoArg }

\* binding.value: the user bound to the directive, if any.
DirectiveValues == { Undefined, User2 }

\* el.style.display when the hook runs.
Displays == { "", "block" }

\* The condition of x ? a : b.
Truthy(x) == x \notin { Undefined, Null, False, Zero, EmptyString }

\* mounted(el, binding). In the record of the hook, out is what grantify.can
\* gave (NoOutcome when it was not called) and el the element's display.
mounted(arg, value, was) ==
  /\ last = NoCall
  /\ built
  /\ IF arg = NoArg
     THEN last' = [NoCall EXCEPT !.op = "mounted", !.user = value,
                                 !.el = [was |-> was, display |-> was]]
     ELSE \E o \in Reached(arg) :
            LET res == canResult(arg, value, Undefined, o)
            IN last' = [op |-> "mounted", perm |-> arg, user |-> value,
                        ctx |-> Undefined, cb |-> NoCallback, out |-> res.out,
                        calls |-> res.calls, rows |-> NoRows,
                        el |-> [was |-> was,
                                display |-> IF res.out.status = "throw" THEN was
                                            ELSE IF Truthy(res.out.val) THEN ""
                                            ELSE "none"]]
  /\ UNCHANGED << permissions, defaultUser, rules, built, held, other >>

\* An application that mounts elements with v-can.
NextDirective ==
  \/ NextPlain
  \/ \E arg \in DirectiveArgs, value \in DirectiveValues, was \in Displays :
       mounted(arg, value, was)

SpecDirective == Init /\ [][NextDirective]_vars

\* The operations of the library.
LibraryOps == { "defineRule", "build", "can", "getRules" }

\* C21: no operation of the library writes to the permissions array the
\* caller passed: it has the same elements in the same order after the
\* operation as before it.
C21_PermissionsUntouched ==
  [][last'.op \in LibraryOps => permissions' = permissions]_vars

\* After a rule was defined and the instance built and read, the allow-list
\* still has the padded entry it was given.
C21_Witness ==
  /\ last.op = "getRules"
  /\ rules # <<>>
  /\ permissions = << <<" ", "r">>, <<"w">> >>

\* The async member the type of defineRule gives the rule map entry of a
\* callback: true when its declared result is a promise (R extends
\* Promise<boolean> ? true : false).
StaticAsync(cb) == cb.returns = "deferred"

\* The async members that the defineRule calls so far have intersected into
\* the rule map entry of the permission p (RM & { [K in PP]: ... }).
RuleMapAsync(p) ==
  { StaticAsync(rules[i].cb) : i \in { j \in 1..Len(rules) : rules[j].perm = p } }

\* The declared result of can(p): RM[PP]['async'] extends true ?
\* Promise<boolean> : boolean. Entries with async false and async true
\* intersect to never, and never extends true.
StaticResult(p) ==
  IF RuleMapAsync(p) = { FALSE } THEN "boolean" ELSE "Promise<boolean>"

\* C22: a can(p) that type-checks and returns has the declared result
\* Promise<boolean> exactly when it returns a promise, and boolean exactly when
\* it returns a boolean.
C22_StaticShape ==
  (CanCalled /\ includes(permissions, last.perm) /\ last.out.status = "return")
    => /\ (StaticResult(last.perm) = "Promise<boolean>")
            <=> (last.out.val.kind = "promise")
       /\ (StaticResult(last.perm) = "boolean")
            <=> (last.out.val.kind = "boolean")

\* C23: in every reachable state each stored rule's perm is its own trimmed
\* form and an entry of the allow-list given at construction.
C23_StoredRulesListed ==
  \A i \in 1..Len(rules) :
    /\ rules[i].perm = TrimmedForm(rules[i].perm)
    /\ includes(permissions, rules[i].perm)

\* The sequence s is a prefix of the sequence t.
IsPrefix(s, t) == Len(s) <= Len(t) /\ SubSeq(t, 1, Len(s)) = s

\* C24: every step of a library operation leaves the rules a prefix of what
\* they become, and only a successful defineRule makes them longer, by one;
\* so the rules at any point are a prefix of the rules at every later point.
C24_AppendOnly ==
  [][last'.op \in LibraryOps
       => /\ IsPrefix(rules, rules')
          /\ Len(rules') = Len(rules) + (IF DefineRuleSucceeded' THEN 1 ELSE 0)
    ]_vars

\* A second rule has just been appended behind a first one for another
\* permission.
C24_Witness ==
  /\ DefineRuleSucceeded
  /\ Len(rules) = 2
  /\ rules[1].perm # rules[2].perm
  /\ rules[2].cb = last.cb

\* C25: can, getRules and build leave the rules, the allow-list and the default
\* subject as they were, whatever the outcome of can.
C25_ReadOnlyOperations ==
  [][last'.op \in {"can", "getRules", "build"}
       => /\ rules' = rules
          /\ permissions' = permissions
          /\ defaultUser' = defaultUser
    ]_vars

\* A can whose callback gave a rejected promise has completed with rules in the
\* registry.
C25_Witness ==
  /\ CanCalled
  /\ rules # <<>>
  /\ last.out = Return(Rejected(CallbackError))

\* C26: for a rule stored as asynchronous, can returns the promise the callback
\* returned: settled the same way, to the same value, a non-boolean one
\* included.
C26_DeferredAsIs ==
  (CanCalled /\ rules[Earliest(last.perm)].async
     /\ last.calls[1].ret.status = "return")
    => /\ last.out = Return(last.calls[1].ret.val)
       /\ last.out.val.kind = "promise"

\* An asynchronous rule's promise fulfilled with the number 1 came back from can
\* as it was.
C26_Witness ==
  /\ CanCalled
  /\ rules[Earliest(last.perm)].async
  /\ last.out = Return(Fulfilled(One))

\* The outcome x of a permission check is false: the boolean false, or a
\* promise of it.
OutcomeFalse(x) == x = False \/ x = Fulfilled(False)

\* C27: v-can mounted with a permission hides the element (display 'none')
\* exactly when the outcome of grantify.can is false, for a synchronous and for
\* an asynchronous rule; mounted with no permission it calls nothing and
\* leaves the display as it was.
C27_DirectiveGates ==
  last.op = "mounted" =>
    IF last.perm = NoArg
    THEN last.out = NoOutcome /\ last.calls = <<>> /\ last.el.display = last.el.was
    ELSE last.out.status = "return"
           => ((last.el.display = "none") <=> OutcomeFalse(last.out.val))

\* C28: a can with the subject omitted gives the callback the object passed as
\* options.user as it is at the call, with what the caller wrote to it since
\* construction; no step makes the default subject another object and no
\* library operation changes it.
C28_SubjectByReference ==
  /\ []((CanCalled /\ last.user = Undefined)
          => last.calls[1].user = defaultUser)
  /\ [][/\ defaultUser'.kind = defaultUser.kind
        /\ defaultUser'.v = defaultUser.v
        /\ last'.op \in LibraryOps => defaultUser' = defaultUser]_vars

\* The caller wrote a field of the user object after construction and the next
\* can without a subject gave the callback the object with that field.
C28_Witness ==
  /\ CanCalled
  /\ last.user = Undefined
  /\ last.calls[1].user = [User1 EXCEPT !.st = "isAdmin"]

\* C29: an operation on the builder or the instances of one createGrantify
\* call leaves the rules, the allow-list, the default subject and the built
\* state of the other call's closure as they were, and when the caller turns to
\* the other call's registry it finds it as it left it.
C29_RegistriesIsolated ==
  [][/\ last'.op \in LibraryOps => other' = other
     /\ last'.op = "switch"
          => /\ Closure(permissions', defaultUser', rules', built') = other
             /\ other' = Closure(permissions, defaultUser, rules, built)
    ]_vars

\* Both registries have the same allow-list and rules of their own, and a can
\* on one has just reached a callback.
C29_Witness ==
  /\ CanCalled
  /\ other.permissions = permissions
  /\ other.rules # <<>>
  /\ other.rules # rules
  /\ other.built

====
